---- MODULE Spec2Model ----
(***************************************************************************)
(* Visible -> Affinity metric sync (src/main.py, src/visible.py,           *)
(* src/affinity.py, src/utils.py).                                         *)
(*                                                                         *)
(* Strings are sequences of one-character strings, so that the string      *)
(* operations of normalize_domain are computed character by character.     *)
(***************************************************************************)
EXTENDS Integers, Sequences, FiniteSets, TLC

VARIABLES
    \* ---- utils.normalize_domain applied twice (SpecNormalize)
    url,            \* the raw input string
    normCalls,      \* how many times normalize_domain has been applied
    once,           \* normalize_domain(url), once normCalls >= 1
    twice,          \* normalize_domain(normalize_domain(url)), once normCalls = 2
    \* ---- main.sync_runway_data (Spec)
    pc,             \* position in sync_runway_data
    dry_run,        \* the dry_run parameter
    visible_data,   \* {normalized domain: metric value} from fetch_visible_metric_data
    next_url,       \* get_affinity_list_entries: the local "url" cursor
    all_entries,    \* get_affinity_list_entries: entries accumulated so far
    list_requests,  \* GET requests sent to the list-entries endpoint
    affinity_entries,
    ei,             \* index of the entry the matching loop is at
    matches,
    unmatched_visible,
    unmatched_affinity,
    mi,             \* index of the match the step-4 loop is at
    success_count,
    failed_count,
    patch_log,      \* PATCH requests sent to the update endpoint, in order
    report,         \* the "Would update" lines printed by a dry run
    read_failed,    \* a paginated read has received a non-success status
    \* ---- visible.get_visible_portfolio_companies (SpecPages)
    page,           \* the page counter
    companies,      \* the items accumulated so far
    page_log,       \* the requests sent and the responses received, in order
    \* ---- visible.fetch_visible_metric_data from its company loop on (SpecMetric)
    mpc,            \* position in fetch_visible_metric_data / get_latest_data_point
    n_companies,    \* len(companies)
    ci,             \* index of the company the loop is at
    domain_to_value,
    cur_domain,     \* normalized_domain of the current company
    dp_page,        \* get_latest_data_point: page
    remaining,      \* data points of the current page not yet iterated over
    page_total,     \* meta.get("total_pages", 1) of the current page
    latest_date,
    latest_value,
    usable_seen,    \* dated points with a non-null, non-"None" value fetched for the company
    unusable_seen,  \* whether a point with a null or "None" value was fetched for it
    map_before,     \* domain_to_value when the current company was begun
    last_outcome,   \* what became of the company processed last
    n_no_data       \* companies left out with the "No data for metric" warning

normVars == <<url, normCalls, once, twice>>
fetchVars == <<next_url, all_entries, list_requests, read_failed>>
matchVars == <<affinity_entries, ei, matches, unmatched_visible, unmatched_affinity>>
updateVars == <<mi, success_count, failed_count, patch_log, report>>
syncVars == <<pc, dry_run, visible_data, fetchVars, matchVars, updateVars>>
pageVars == <<page, companies, page_log>>
latestVars == <<dp_page, remaining, page_total, latest_date, latest_value, usable_seen, unusable_seen>>
metricVars == <<mpc, n_companies, n_no_data, ci, domain_to_value, cur_domain, latestVars, map_before, last_outcome>>
vars == <<normVars, syncVars, pageVars, metricVars>>

\* ------------------------------------------------------------------------
\* Bounds of the model
\* ------------------------------------------------------------------------
MaxLen == 4         \* longest raw string over Alphabet
MaxWLen == 8        \* longest raw string over WwwAlphabet
MaxEntries == 3     \* most CRM list entries the server holds
MaxListRequests == 4 \* most pages of list entries requested in one run
MaxPages == 3       \* largest total_pages the Visible server reports
MaxCompanies == 2   \* most portfolio companies
MaxPoints == 2      \* most data points on one page

Alphabet == {"a", "w", "W", ".", "/", " ", ":"}
WwwAlphabet == {"w", "."}

RECURSIVE StringsOf(_, _)
StringsOf(alphabet, n) ==
    IF n = 0 THEN {<<>>}
    ELSE LET shorter == StringsOf(alphabet, n - 1)
         IN  shorter \cup {Append(s, c) : s \in {t \in shorter : Len(t) = n - 1}, c \in alphabet}

\* ------------------------------------------------------------------------
\* Python string primitives (str.lower, str.replace, str.strip, str.rstrip,
\* the "in" substring test) on sequences of characters
\* ------------------------------------------------------------------------
Drop(s, n) == SubSeq(s, n + 1, Len(s))
Take(s, n) == SubSeq(s, 1, n)

StartsWith(s, p) == Len(s) >= Len(p) /\ Take(s, Len(p)) = p

RECURSIVE Contains(_, _)
Contains(s, p) ==
    IF Len(s) < Len(p) THEN FALSE
    ELSE StartsWith(s, p) \/ Contains(Tail(s), p)

LowerChar(c) ==
    CASE c = "W" -> "w"
      [] c = "A" -> "a"
      [] c = "N" -> "n"
      [] c = "B" -> "b"
      [] c = "C" -> "c"
      [] OTHER -> c

Lower(s) == [i \in 1..Len(s) |-> LowerChar(s[i])]

Www == <<"w", "w", "w", ".">>

\* str.replace("www.", ""): every non-overlapping occurrence, leftmost first
RECURSIVE ReplaceWww(_)
ReplaceWww(s) ==
    IF Len(s) < Len(Www) THEN s
    ELSE IF StartsWith(s, Www) THEN ReplaceWww(Drop(s, Len(Www)))
    ELSE <<Head(s)>> \o ReplaceWww(Tail(s))

IsSpace(c) == c = " "

RECURSIVE LStrip(_)
LStrip(s) == IF s # <<>> /\ IsSpace(Head(s)) THEN LStrip(Tail(s)) ELSE s

RECURSIVE RStrip(_)
RStrip(s) == IF s # <<>> /\ IsSpace(s[Len(s)]) THEN RStrip(Take(s, Len(s) - 1)) ELSE s

Strip(s) == RStrip(LStrip(s))

\* str.rstrip("/"): every trailing slash
RECURSIVE RStripSlash(_)
RStripSlash(s) ==
    IF s # <<>> /\ s[Len(s)] = "/" THEN RStripSlash(Take(s, Len(s) - 1)) ELSE s

\* ------------------------------------------------------------------------
\* urllib.parse.urlparse, as far as normalize_domain reads it (netloc, path),
\* on strings without "?", "#", ";", "[" and "]"
\* ------------------------------------------------------------------------
IsAlpha(c) == c \in {"a", "b", "c", "h", "m", "n", "o", "p", "s", "t", "w", "x",
                     "A", "B", "C", "N", "W"}
IsSchemeChar(c) == IsAlpha(c) \/ c \in {"+", "-", "."}

\* index of the first character of s at or after position i that is in cs; 0 if none
RECURSIVE FindFrom(_, _, _)
FindFrom(s, cs, i) ==
    IF i > Len(s) THEN 0
    ELSE IF s[i] \in cs THEN i
    ELSE FindFrom(s, cs, i + 1)

urlparse(raw) ==
    LET u == LStrip(raw)
        colon == FindFrom(u, {":"}, 1)
        hasScheme == /\ colon > 1
                     /\ IsAlpha(u[1])
                     /\ \A k \in 1..(colon - 1) : IsSchemeChar(u[k])
        rest == IF hasScheme THEN Drop(u, colon) ELSE u
        slashes == StartsWith(rest, <<"/", "/">>)
        delim == FindFrom(rest, {"/"}, 3)
        netlocEnd == IF delim = 0 THEN Len(rest) ELSE delim - 1
    IN  [netloc |-> IF slashes THEN SubSeq(rest, 3, netlocEnd) ELSE <<>>,
         path   |-> IF slashes THEN Drop(rest, netlocEnd) ELSE rest]

\* ------------------------------------------------------------------------
\* utils.normalize_domain
\* ------------------------------------------------------------------------
NA == <<"N", "/", "A">>
SchemeSep == <<":", "/", "/">>

normalize_domain(raw) ==
    IF raw = <<>> \/ raw = NA THEN <<>>
    ELSE LET parsed == urlparse(raw)
             domain == IF Contains(raw, SchemeSep)
                       THEN (IF parsed.netloc # <<>> THEN parsed.netloc ELSE parsed.path)
                       ELSE raw
         IN  RStripSlash(Strip(ReplaceWww(Lower(domain))))

\* ------------------------------------------------------------------------
\* Inputs of a sync run
\* ------------------------------------------------------------------------
DomA == <<"a">>
DomB == <<"b">>
DomC == <<"c">>
RawB == <<"W", "W", "W", ".", "b", "/">>      \* normalizes to DomB

\* the "domains" a CRM entity may carry, raw, in listed order
DomainLists == {<<>>, <<DomA>>, <<DomC>>, <<DomA, DomB>>, <<DomC, RawB>>}

SourceKeys == {DomA, DomB}

\* the metric value Visible holds for each source key
MetricOf(k) == IF k = DomA THEN 1 ELSE 2

EmptyMap == [k \in {} |-> 0]

\* the maps fetch_visible_metric_data can return over SourceKeys: its keys are
\* results of normalize_domain and never empty (visible.py 215-217)
SourceMaps ==
    {[k \in ks |-> MetricOf(k)] :
        ks \in SUBSET {k \in SourceKeys : normalize_domain(k) = k /\ k # <<>>}}

\* ------------------------------------------------------------------------
\* affinity.get_affinity_list_entries: link-style pagination
\* ------------------------------------------------------------------------
FirstUrl == "list-entries?limit=100"
NextUrl == "nextUrl"
NoUrl == "None"

\* requests.Response.raise_for_status raises HTTPError for 4xx and 5xx
RaisesForStatus(status) == status >= 400 /\ status < 600

ReadStatuses == {200, 500}

\* one list entry with the fields sync_runway_data reads; the entity name
\* is only printed, and is modelled by the entry's id
ListEntry(id, domains) == [id |-> id, name |-> id, domains |-> domains]

\* the pages the server can answer with: a status, "data", "pagination.nextUrl"
EntryPages(nextId) ==
    {[status |-> st, data |-> d, nextUrl |-> n] :
        st \in ReadStatuses,
        d \in {<<>>} \cup {<<ListEntry(nextId, dl)>> : dl \in DomainLists},
        n \in {NoUrl, NextUrl}}

\* variant: a failed page ends the loop and the entries so far are returned
get_affinity_list_entries_page_partial(resp) ==
    /\ list_requests' = list_requests + 1
    /\ pc' = pc
    /\ IF RaisesForStatus(resp.status)
       THEN /\ next_url' = NoUrl
            /\ read_failed' = TRUE
            /\ UNCHANGED all_entries
       ELSE /\ all_entries' = all_entries \o resp.data
            /\ next_url' = resp.nextUrl
            /\ UNCHANGED read_failed

get_affinity_list_entries_page(resp) ==
    /\ list_requests' = list_requests + 1
    /\ IF RaisesForStatus(resp.status)
       THEN \* r.raise_for_status() raises; nothing in sync_runway_data catches it
            /\ pc' = "crashed"
            /\ read_failed' = TRUE
            /\ UNCHANGED <<next_url, all_entries>>
       ELSE /\ all_entries' = all_entries \o resp.data
            /\ next_url' = resp.nextUrl
            /\ pc' = pc
            /\ UNCHANGED read_failed

AffinityPage ==
    /\ pc = "fetch_affinity"
    /\ next_url # NoUrl
    /\ list_requests < MaxListRequests
    /\ \E resp \in EntryPages(Len(all_entries) + 1) :
          /\ Len(all_entries) + Len(resp.data) <= MaxEntries
          /\ get_affinity_list_entries_page(resp)
    /\ UNCHANGED <<dry_run, visible_data, matchVars, updateVars, normVars, pageVars, metricVars>>

\* the loop ends, the entries are returned and the matching state is set up
AffinityReturn ==
    /\ pc = "fetch_affinity"
    /\ next_url = NoUrl
    /\ affinity_entries' = all_entries
    /\ matches' = <<>>
    /\ unmatched_visible' = DOMAIN visible_data
    /\ unmatched_affinity' = <<>>
    /\ ei' = 1
    /\ pc' = "match"
    /\ UNCHANGED <<dry_run, visible_data, fetchVars, updateVars, normVars, pageVars, metricVars>>

\* ------------------------------------------------------------------------
\* main.sync_runway_data
\* ------------------------------------------------------------------------
\* variant: step 2 follows step 1 whatever the source map holds
Step1AlwaysContinue(data) == "fetch_affinity"

\* lines 110-112: "if not visible_data: ... return"
Step1Branch(data) == IF data = EmptyMap THEN "no_data" ELSE "fetch_affinity"

\* step 1: the source map; an empty one ends the run
FetchVisible ==
    /\ pc = "fetch_visible"
    /\ \E data \in SourceMaps :
          /\ visible_data' = data
          /\ pc' = Step1Branch(data)
    /\ UNCHANGED <<dry_run, fetchVars, matchVars, updateVars, normVars, pageVars, metricVars>>

\* step 3, inner loop: the index of the first domain, in listed order, whose
\* normalization is a key of the source map; 0 when there is none
RECURSIVE FirstMatchFrom(_, _, _)
FirstMatchFrom(domains, data, k) ==
    IF k > Len(domains) THEN 0
    ELSE IF normalize_domain(domains[k]) \in DOMAIN data THEN k
    ELSE FirstMatchFrom(domains, data, k + 1)

\* variant: a key already claimed by an earlier record no longer matches
FirstMatchUnclaimed(domains, data) ==
    FirstMatchFrom(domains, [k \in (DOMAIN data) \cap unmatched_visible |-> data[k]], 1)

\* variant: no "break", the last matching domain wins
RECURSIVE LastMatchFrom(_, _, _)
LastMatchFrom(domains, data, k) ==
    IF k < 1 THEN 0
    ELSE IF normalize_domain(domains[k]) \in DOMAIN data THEN k
    ELSE LastMatchFrom(domains, data, k - 1)

LastMatch(domains, data) == LastMatchFrom(domains, data, Len(domains))

FirstMatch(domains, data) == FirstMatchFrom(domains, data, 1)

\* variant: "if not matched" without "and domains"
UnmatchedWithoutDomainCheck(matched, domains) == ~matched

\* line 154: a record goes to unmatched_affinity when it did not match and
\* has at least one domain
IsUnmatchedAffinity(matched, domains) == ~matched /\ domains # <<>>

\* step 3: one iteration of the loop over the entries
MatchEntry ==
    /\ pc = "match"
    /\ ei <= Len(affinity_entries)
    /\ LET entry == affinity_entries[ei]
           k == FirstMatch(entry.domains, visible_data)
           normalized == normalize_domain(entry.domains[k])
       IN  IF k > 0
           THEN /\ matches' = Append(matches,
                        [company_name |-> entry.name,
                         list_entry_id |-> entry.id,
                         domain |-> normalized,
                         metric_value |-> visible_data[normalized]])
                /\ unmatched_visible' = unmatched_visible \ {normalized}
                /\ UNCHANGED unmatched_affinity
           ELSE /\ unmatched_affinity' =
                        IF IsUnmatchedAffinity(k > 0, entry.domains)
                        THEN Append(unmatched_affinity,
                                    [company_name |-> entry.name, domains |-> entry.domains])
                        ELSE unmatched_affinity
                /\ UNCHANGED <<matches, unmatched_visible>>
    /\ ei' = ei + 1
    /\ UNCHANGED <<pc, dry_run, visible_data, affinity_entries, fetchVars, updateVars, normVars, pageVars, metricVars>>

\* step 4 begins: a dry run reports, a real run updates
\* variant: the dry_run flag is ignored
Step4AlwaysUpdate(dry) == "update"

Step4Branch(dry) == IF dry THEN "dry_report" ELSE "update"

MatchSummary ==
    /\ pc = "match"
    /\ ei > Len(affinity_entries)
    /\ pc' = Step4Branch(dry_run)
    /\ mi' = 1
    /\ success_count' = 0
    /\ failed_count' = 0
    /\ UNCHANGED <<dry_run, visible_data, fetchVars, matchVars, patch_log, report, normVars, pageVars, metricVars>>

\* step 4, dry run: one "Would update" line per match
DryRunLine ==
    /\ pc = "dry_report"
    /\ mi <= Len(matches)
    /\ report' = Append(report, [company_name |-> matches[mi].company_name,
                                 metric_value |-> matches[mi].metric_value])
    /\ mi' = mi + 1
    /\ UNCHANGED <<pc, dry_run, visible_data, fetchVars, matchVars,
                   success_count, failed_count, patch_log, normVars, pageVars, metricVars>>

\* ------------------------------------------------------------------------
\* affinity.update_affinity_field
\* ------------------------------------------------------------------------
\* what the single PATCH request can end in: a response with a status, or a
\* transport error raised by requests.patch
UpdateOutcomes ==
    {[kind |-> "response", status |-> 200],
     [kind |-> "response", status |-> 500],
     [kind |-> "Timeout", status |-> 0]}

\* variant: "except requests.exceptions.HTTPError"
OnlyHTTPErrorCaught == {"HTTPError"}

\* the exception classes "except requests.exceptions.RequestException" catches
CaughtExceptions == {"HTTPError", "Timeout", "ConnectionError"}

update_affinity_field(outcome) ==
    LET exc == IF outcome.kind # "response" THEN outcome.kind
               ELSE IF RaisesForStatus(outcome.status) THEN "HTTPError"
               ELSE "none"
    IN  IF exc = "none" THEN [raised |-> FALSE, value |-> TRUE]
        ELSE IF exc \in CaughtExceptions THEN [raised |-> FALSE, value |-> FALSE]
        ELSE [raised |-> TRUE, value |-> FALSE]

\* variant: the loop is left at the first failed update
UpdateLoopBodyStopOnFailure(outcome) ==
    LET result == update_affinity_field(outcome)
    IN  /\ patch_log' = Append(patch_log,
                [list_entry_id |-> matches[mi].list_entry_id,
                 value |-> matches[mi].metric_value,
                 outcome |-> outcome,
                 result |-> result])
        /\ pc' = pc
        /\ mi' = IF result.value THEN mi + 1 ELSE Len(matches) + 1
        /\ success_count' = IF result.value THEN success_count + 1 ELSE success_count
        /\ failed_count' = IF result.value THEN failed_count ELSE failed_count + 1

\* step 4, real run: one iteration of the loop over the matches
UpdateLoopBody(outcome) ==
    LET result == update_affinity_field(outcome)
    IN  /\ patch_log' = Append(patch_log,
                [list_entry_id |-> matches[mi].list_entry_id,
                 value |-> matches[mi].metric_value,
                 outcome |-> outcome,
                 result |-> result])
        /\ IF result.raised
           THEN /\ pc' = "crashed"
                /\ UNCHANGED <<mi, success_count, failed_count>>
           ELSE /\ pc' = pc
                /\ mi' = mi + 1
                /\ success_count' = IF result.value THEN success_count + 1 ELSE success_count
                /\ failed_count' = IF result.value THEN failed_count ELSE failed_count + 1

UpdateMatch ==
    /\ pc = "update"
    /\ mi <= Len(matches)
    /\ \E outcome \in UpdateOutcomes : UpdateLoopBody(outcome)
    /\ UNCHANGED <<dry_run, visible_data, fetchVars, matchVars, report, normVars, pageVars, metricVars>>

\* the step-4 loop is over: the summary is printed and the pipeline completes
Finish ==
    /\ pc \in {"dry_report", "update"}
    /\ mi > Len(matches)
    /\ pc' = "done"
    /\ UNCHANGED <<dry_run, visible_data, fetchVars, matchVars, updateVars, normVars, pageVars, metricVars>>

\* ------------------------------------------------------------------------
\* normalize_domain applied to a raw string, then to its own result
\* ------------------------------------------------------------------------
RawStrings == StringsOf(Alphabet, MaxLen) \cup StringsOf(WwwAlphabet, MaxWLen)

NormalizeOnce ==
    /\ normCalls = 0
    /\ once' = normalize_domain(url)
    /\ normCalls' = 1
    /\ UNCHANGED <<url, twice, syncVars, pageVars, metricVars>>

NormalizeTwice ==
    /\ normCalls = 1
    /\ twice' = normalize_domain(once)
    /\ normCalls' = 2
    /\ UNCHANGED <<url, once, syncVars, pageVars, metricVars>>

\* ------------------------------------------------------------------------
\* visible.get_visible_portfolio_companies: page-counter pagination.
\* get_visible_metrics (48-74) and get_visible_company_metrics (82-111) are
\* the same loop over another endpoint and payload key.
\* ------------------------------------------------------------------------
\* requests.Response.ok: the status is below 400
ResponseOk(status) == status < 400

\* the items one page can carry
ItemLists == {<<>>, <<1>>, <<2>>, <<1, 2>>}

\* the responses the server can give: a status, the payload's items, and
\* "meta", with or without "total_pages"
CompanyPages ==
    {[status |-> st, items |-> it, has_total |-> h, total_pages |-> t] :
        st \in ReadStatuses, it \in ItemLists, h \in BOOLEAN, t \in 0..MaxPages}

\* meta.get("total_pages", 1)
TotalPagesOf(resp) == IF resp.has_total THEN resp.total_pages ELSE 1

\* variant: the loop goes on while page <= total_pages
IsPastLastPage(p, total) == p > total

\* line 41: the loop ends when the page number has reached total_pages
IsLastPage(p, total) == p >= total

get_visible_portfolio_companies_page(resp) ==
    /\ page_log' = Append(page_log, [page |-> page, resp |-> resp])
    /\ IF ~ResponseOk(resp.status)
       THEN \* the error is printed, the loop is left, companies is returned
            /\ pc' = "companies_returned"
            /\ read_failed' = TRUE
            /\ UNCHANGED <<page, companies>>
       ELSE /\ companies' = companies \o resp.items
            /\ UNCHANGED read_failed
            /\ IF IsLastPage(page, TotalPagesOf(resp))
               THEN pc' = "companies_returned" /\ UNCHANGED page
               ELSE pc' = pc /\ page' = page + 1

VisiblePage ==
    /\ pc = "fetch_companies"
    /\ \E resp \in CompanyPages : get_visible_portfolio_companies_page(resp)
    /\ UNCHANGED <<dry_run, visible_data, next_url, all_entries, list_requests,
                   matchVars, updateVars, normVars, metricVars>>

\* ------------------------------------------------------------------------
\* visible.get_latest_data_point and the company loop of
\* visible.fetch_visible_metric_data
\* ------------------------------------------------------------------------
MetricIdle ==
    /\ mpc = "idle"
    /\ n_companies = 0
    /\ n_no_data = 0
    /\ ci = 1
    /\ domain_to_value = EmptyMap
    /\ cur_domain = <<>>
    /\ dp_page = 1
    /\ remaining = 0
    /\ page_total = 1
    /\ latest_date = 0
    /\ latest_value = "null"
    /\ usable_seen = {}
    /\ unusable_seen = FALSE
    /\ map_before = EmptyMap
    /\ last_outcome = "none"

\* what get_company_website can return: None, the sentinel, blanks, a
\* domain, a raw URL-like string
NoWebsite == <<>>
Websites == {NoWebsite, NA, <<" ">>, DomB, RawB}

\* data point dates: fixed-width ISO date strings, compared as strings; 1 and
\* 2 stand for two such dates in their order, 0 for the initial "0000-00-00",
\* NoDate for a point without a date
NoDate == -1
InitialDate == 0
PointDates == {NoDate, 1, 2}

\* data point values as the API sends them: JSON null, the string "None",
\* numeric strings, other text
JsonNull == "null"
PointValues == {JsonNull, "None", "1", "2", "abc"}

DataPoints == {[date |-> d, value |-> v] : d \in PointDates, v \in PointValues}

\* the responses of GET /data_points: a status, how many points the page
\* carries, and "meta"
DataPointPages ==
    {[status |-> st, n_points |-> n, has_total |-> h, total_pages |-> t] :
        st \in ReadStatuses, n \in 0..MaxPoints, h \in BOOLEAN, t \in 0..MaxPages}

\* float(value): the number, or the exception raised
FloatOf(value) ==
    CASE value = "1" -> [exc |-> "none", number |-> 1]
      [] value = "2" -> [exc |-> "none", number |-> 2]
      [] value = JsonNull -> [exc |-> "TypeError", number |-> 0]
      [] OTHER -> [exc |-> "ValueError", number |-> 0]

\* "except (ValueError, TypeError)"
CaughtByRecord == {"ValueError", "TypeError"}

\* value not in [None, "None"]
IsUsableValue(value) == value \notin {JsonNull, "None"}

\* variant: line 139 without the test of the value
IsNewer(dp, latest) == dp.date # NoDate /\ dp.date > latest

\* line 139: whether the point replaces the latest one found so far
SelectsPoint(dp, latest) ==
    IsUsableValue(dp.value) /\ dp.date # NoDate /\ dp.date > latest

\* lines 207-228: the loop takes the next company: its website, its
\* domain, its metric; then get_latest_data_point begins (116-118)
StartCompany ==
    /\ mpc = "company"
    /\ ci <= n_companies
    /\ \E website \in Websites, found \in BOOLEAN :
          LET normalized == normalize_domain(website)
              skip == IF website = NoWebsite \/ website = NA THEN "no_website"
                      ELSE IF normalized = <<>> THEN "no_domain"
                      ELSE IF ~found THEN "no_metric"
                      ELSE "none"
          IN  IF skip # "none"
              THEN /\ last_outcome' = skip
                   /\ ci' = ci + 1
                   /\ UNCHANGED <<mpc, cur_domain, latestVars, map_before>>
              ELSE /\ cur_domain' = normalized
                   /\ map_before' = domain_to_value
                   /\ dp_page' = 1
                   /\ latest_date' = InitialDate
                   /\ latest_value' = JsonNull
                   /\ usable_seen' = {}
                   /\ unusable_seen' = FALSE
                   /\ mpc' = "data_points"
                   /\ UNCHANGED <<ci, remaining, page_total, last_outcome>>
    /\ UNCHANGED <<n_companies, n_no_data, domain_to_value, syncVars, normVars, pageVars>>

\* lines 120-134: one request of get_latest_data_point
DataPointsRequest ==
    /\ mpc = "data_points"
    /\ \E resp \in DataPointPages :
          IF ~ResponseOk(resp.status)
          THEN /\ mpc' = "record"
               /\ UNCHANGED <<remaining, page_total>>
          ELSE /\ remaining' = resp.n_points
               /\ page_total' = TotalPagesOf(resp)
               /\ mpc' = "points"
    /\ UNCHANGED <<n_companies, n_no_data, ci, domain_to_value, cur_domain, dp_page, latest_date,
                   latest_value, usable_seen, unusable_seen, map_before, last_outcome,
                   syncVars, normVars, pageVars>>

\* lines 136-141: one data point of the page
DataPoint ==
    /\ mpc = "points"
    /\ remaining > 0
    /\ \E dp \in DataPoints :
          /\ IF SelectsPoint(dp, latest_date)
             THEN latest_date' = dp.date /\ latest_value' = dp.value
             ELSE UNCHANGED <<latest_date, latest_value>>
          /\ usable_seen' = IF dp.date # NoDate /\ dp.value \notin {JsonNull, "None"}
                            THEN usable_seen \cup {dp} ELSE usable_seen
          /\ unusable_seen' = (unusable_seen \/ dp.value \in {JsonNull, "None"})
    /\ remaining' = remaining - 1
    /\ UNCHANGED <<mpc, n_companies, n_no_data, ci, domain_to_value, cur_domain, dp_page, page_total,
                   map_before, last_outcome, syncVars, normVars, pageVars>>

\* lines 143-147: the page is done: the last page returns, else the next page
DataPointsPageEnd ==
    /\ mpc = "points"
    /\ remaining = 0
    /\ IF IsLastPage(dp_page, page_total)
       THEN mpc' = "record" /\ UNCHANGED dp_page
       ELSE mpc' = "data_points" /\ dp_page' = dp_page + 1
    /\ UNCHANGED <<n_companies, n_no_data, ci, domain_to_value, cur_domain, remaining, page_total,
                   latest_date, latest_value, usable_seen, unusable_seen, map_before,
                   last_outcome, syncVars, normVars, pageVars>>

\* lines 228-237: the latest value is recorded, or the company is left out
RecordCompany ==
    /\ mpc = "record"
    /\ IF IsUsableValue(latest_value)
       THEN LET f == FloatOf(latest_value)
            IN  IF f.exc = "none"
                THEN /\ domain_to_value' =
                            [k \in DOMAIN domain_to_value \cup {cur_domain} |->
                                IF k = cur_domain THEN f.number ELSE domain_to_value[k]]
                     /\ last_outcome' = "recorded"
                     /\ mpc' = "company"
                     /\ ci' = ci + 1
                     /\ UNCHANGED n_no_data
                ELSE IF f.exc \in CaughtByRecord
                THEN /\ last_outcome' = "invalid"
                     /\ mpc' = "company"
                     /\ ci' = ci + 1
                     /\ UNCHANGED <<domain_to_value, n_no_data>>
                ELSE /\ mpc' = "crashed"
                     /\ UNCHANGED <<ci, domain_to_value, last_outcome, n_no_data>>
       ELSE \* the "No data for metric" warning
            /\ last_outcome' = "no_data"
            /\ n_no_data' = n_no_data + 1
            /\ mpc' = "company"
            /\ ci' = ci + 1
            /\ UNCHANGED domain_to_value
    /\ UNCHANGED <<n_companies, cur_domain, latestVars, map_before,
                   syncVars, normVars, pageVars>>

\* lines 239-240: the loop is over, the map is returned
MetricReturn ==
    /\ mpc = "company"
    /\ ci > n_companies
    /\ mpc' = "returned"
    /\ UNCHANGED <<n_companies, n_no_data, ci, domain_to_value, cur_domain, latestVars, map_before,
                   last_outcome, syncVars, normVars, pageVars>>

\* ------------------------------------------------------------------------
\* Specifications
\* ------------------------------------------------------------------------
NormIdle ==
    /\ url = <<>>
    /\ normCalls = 0
    /\ once = <<>>
    /\ twice = <<>>

SyncStart ==
    /\ next_url = FirstUrl
    /\ all_entries = <<>>
    /\ list_requests = 0
    /\ read_failed = FALSE
    /\ affinity_entries = <<>>
    /\ ei = 1
    /\ matches = <<>>
    /\ unmatched_visible = {}
    /\ unmatched_affinity = <<>>
    /\ mi = 1
    /\ success_count = 0
    /\ failed_count = 0
    /\ patch_log = <<>>
    /\ report = <<>>

SyncIdle ==
    /\ pc = "idle"
    /\ dry_run = TRUE
    /\ visible_data = EmptyMap
    /\ SyncStart

PagesStart ==
    /\ page = 1
    /\ companies = <<>>
    /\ page_log = <<>>

\* Spec: one run of sync_runway_data
Init ==
    /\ pc = "fetch_visible"
    /\ dry_run \in BOOLEAN
    /\ visible_data = EmptyMap
    /\ SyncStart
    /\ PagesStart
    /\ NormIdle
    /\ MetricIdle

Next ==
    \/ FetchVisible
    \/ AffinityPage
    \/ AffinityReturn
    \/ MatchEntry
    \/ MatchSummary
    \/ DryRunLine
    \/ UpdateMatch
    \/ Finish

Spec == Init /\ [][Next]_vars

\* SpecPages: one paginated read, either get_visible_portfolio_companies
\* (page counter) or get_affinity_list_entries (next-page link) as
\* sync_runway_data calls it. Every request is answered (each carries a
\* timeout) and the loops run without interruption: weak fairness.
InitPages ==
    /\ pc \in {"fetch_companies", "fetch_affinity"}
    /\ dry_run = TRUE
    /\ visible_data = [k \in SourceKeys |-> MetricOf(k)]
    /\ SyncStart
    /\ PagesStart
    /\ NormIdle
    /\ MetricIdle

NextPages ==
    \/ VisiblePage
    \/ AffinityPage
    \/ AffinityReturn

SpecPages == InitPages /\ [][NextPages]_vars /\ WF_vars(NextPages)

\* SpecNormalize: normalize_domain on every raw string of RawStrings
InitNormalize ==
    /\ url \in RawStrings
    /\ normCalls = 0
    /\ once = <<>>
    /\ twice = <<>>
    /\ SyncIdle
    /\ PagesStart
    /\ MetricIdle

NextNormalize == NormalizeOnce \/ NormalizeTwice

SpecNormalize == InitNormalize /\ [][NextNormalize]_vars

\* SpecMetric: fetch_visible_metric_data from its loop over the companies on
\* (the companies fetched, the Website property found)
InitMetric ==
    /\ mpc = "company"
    /\ n_companies \in 1..MaxCompanies
    /\ n_no_data = 0
    /\ ci = 1
    /\ domain_to_value = EmptyMap
    /\ cur_domain = <<>>
    /\ dp_page = 1
    /\ remaining = 0
    /\ page_total = 1
    /\ latest_date = InitialDate
    /\ latest_value = JsonNull
    /\ usable_seen = {}
    /\ unusable_seen = FALSE
    /\ map_before = EmptyMap
    /\ last_outcome = "none"
    /\ SyncIdle
    /\ PagesStart
    /\ NormIdle

NextMetric ==
    \/ StartCompany
    \/ DataPointsRequest
    \/ DataPoint
    \/ DataPointsPageEnd
    \/ RecordCompany
    \/ MetricReturn

SpecMetric == InitMetric /\ [][NextMetric]_vars

\* ------------------------------------------------------------------------
\* Claims
\* ------------------------------------------------------------------------

\* C6: normalize_domain is idempotent: normalizing a normalized string
\* leaves it unchanged, for every raw string.
C6_NormalizeIdempotent == normCalls = 2 => twice = once

\* ---- reconciliation (step 3 of sync_runway_data) -------------------------

IsKey(d) == normalize_domain(d) \in DOMAIN visible_data
HasKey(entry) == \E k \in 1..Len(entry.domains) : IsKey(entry.domains[k])

\* the normalized first domain of the entry, in listed order, that is a key
FirstKey(entry) ==
    LET k == CHOOSE k \in 1..Len(entry.domains) :
                 /\ IsKey(entry.domains[k])
                 /\ \A j \in 1..(k - 1) : ~IsKey(entry.domains[j])
    IN  normalize_domain(entry.domains[k])

MatchesOf(id) == {j \in 1..Len(matches) : matches[j].list_entry_id = id}
UnmatchedOf(id) == {j \in 1..Len(unmatched_affinity) : unmatched_affinity[j].company_name = id}
ProcessedEntries == 1..(ei - 1)
MatchingOver == pc \in {"dry_report", "update", "done"}

\* C1 (as claimed): no two matches share the same matched normalized domain.
C1_AtMostOneMatchPerSourceKey ==
    \A i, j \in 1..Len(matches) : i # j => matches[i].domain # matches[j].domain

\* C1 (amended): every CRM record yields at most one match, and a source key
\* is not used up by a match: every processed record with a domain that is a
\* key of the source map matches on the first such domain, with that key's
\* value, whether or not an earlier record already matched on the key.
C1_OneMatchPerRecordKeysShared ==
    \A i \in ProcessedEntries :
        LET entry == affinity_entries[i]
        IN  /\ Cardinality(MatchesOf(entry.id)) <= 1
            /\ HasKey(entry) =>
                 \E j \in MatchesOf(entry.id) :
                     /\ matches[j].domain = FirstKey(entry)
                     /\ matches[j].metric_value = visible_data[FirstKey(entry)]

\* C1 witness: two different records have matched on the same source key
C1_SharedKeyWitness ==
    /\ MatchingOver
    /\ \E i, j \in 1..Len(matches) :
          /\ i # j
          /\ matches[i].domain = matches[j].domain
          /\ matches[i].list_entry_id # matches[j].list_entry_id

\* the example of C2: source map {a: 1, b: 2} and the records [a], [a, b], [c]
C2_Example ==
    /\ visible_data = [k \in {DomA, DomB} |-> IF k = DomA THEN 1 ELSE 2]
    /\ [i \in 1..Len(affinity_entries) |-> affinity_entries[i].domains]
          = <<(<<DomA>>), <<DomA, DomB>>, (<<DomC>>)>>
    /\ MatchingOver

MatchedPairs == [j \in 1..Len(matches) |-> <<matches[j].list_entry_id, matches[j].domain, matches[j].metric_value>>]

\* C2 (as claimed): in the example the second record falls through to b:
\* matches (a, 1) and (b, 2), no unmatched source key, one unmatched record.
C2_ExampleAsClaimed ==
    C2_Example =>
        /\ MatchedPairs = << <<1, DomA, 1>>, <<2, DomB, 2>> >>
        /\ unmatched_visible = {}
        /\ Len(unmatched_affinity) = 1

\* C2 (amended): in the example the first and the second record both match
\* on a with value 1, the third record is unmatched: 2 matches, 1 unmatched
\* source key (b) and 1 unmatched CRM record.
C2_ExampleAsComputed ==
    C2_Example =>
        /\ MatchedPairs = << <<1, DomA, 1>>, <<2, DomA, 1>> >>
        /\ unmatched_visible = {DomB}
        /\ Len(unmatched_affinity) = 1
        /\ unmatched_affinity[1].company_name = 3

\* C2 witness: the example has been reconciled and the run has completed
C2_ExampleWitness == C2_Example /\ pc = "done"

\* C7: every processed CRM record is in exactly one class: no domains, then
\* neither a match nor an unmatched entry; some domain, then either exactly
\* one match, on the first domain in listed order that is a key, or exactly
\* one unmatched entry; and nothing else is in either list.
C7_Classification ==
    /\ \A i \in ProcessedEntries :
          LET entry == affinity_entries[i]
              m == Cardinality(MatchesOf(entry.id))
              u == Cardinality(UnmatchedOf(entry.id))
          IN  /\ entry.domains = <<>> => m = 0 /\ u = 0
              /\ entry.domains # <<>> =>
                    /\ m + u = 1
                    /\ m = 1 <=> HasKey(entry)
                    /\ \A j \in MatchesOf(entry.id) : matches[j].domain = FirstKey(entry)
                    /\ \A j \in UnmatchedOf(entry.id) :
                           unmatched_affinity[j].domains = entry.domains
    /\ \A j \in 1..Len(matches) :
          \E i \in ProcessedEntries : affinity_entries[i].id = matches[j].list_entry_id
    /\ \A j \in 1..Len(unmatched_affinity) :
          \E i \in ProcessedEntries : affinity_entries[i].id = unmatched_affinity[j].company_name

\* C7 witness: all three classes occur in one run, the match being on the
\* second listed domain because the first is not a key
C7_ThreeClassesWitness ==
    /\ MatchingOver
    /\ \E i, j, k \in ProcessedEntries :
          /\ affinity_entries[i].domains = <<>>
          /\ affinity_entries[j].domains = <<DomC, RawB>>
          /\ MatchesOf(affinity_entries[j].id) # {}
          /\ affinity_entries[k].domains # <<>>
          /\ UnmatchedOf(affinity_entries[k].id) # {}

\* ---- step 4 of sync_runway_data ------------------------------------------

IntendedUpdates ==
    [j \in 1..Len(matches) |-> [company_name |-> matches[j].company_name,
                                metric_value |-> matches[j].metric_value]]

\* C4: in a dry run no request is ever sent to the update endpoint, and the
\* lines reported are the matches, element by element in the same order.
C4_DryRunNoUpdate ==
    dry_run =>
        /\ patch_log = <<>>
        /\ pc = "dry_report" => report = SubSeq(IntendedUpdates, 1, mi - 1)
        /\ pc = "done" => report = IntendedUpdates

\* C4 witness: a dry run has completed with at least two matches reported
C4_DryRunWitness ==
    /\ dry_run
    /\ pc = "done"
    /\ Len(matches) >= 2
    /\ matches[1].metric_value # matches[2].metric_value

\* whether a PATCH outcome is a failure: a transport error or a 4xx/5xx status
UpdateFailed(outcome) == outcome.kind # "response" \/ outcome.status >= 400

FailedCalls == {k \in 1..Len(patch_log) : UpdateFailed(patch_log[k].outcome)}

\* C5: in a real run the k-th update call is for the k-th match, one call per
\* match and no more; a failed call neither ends the loop nor is repeated;
\* succeeded + failed is the number of calls made, failed the number of
\* failed calls, and at the end the number of calls is the number of matches.
C5_UpdateAccounting ==
    (~dry_run /\ (pc \in {"update", "done"} \/ (pc = "crashed" /\ patch_log # <<>>))) =>
        /\ pc # "crashed"
        /\ Len(patch_log) = mi - 1
        /\ \A k \in 1..Len(patch_log) :
              /\ patch_log[k].list_entry_id = matches[k].list_entry_id
              /\ patch_log[k].value = matches[k].metric_value
        /\ success_count + failed_count = Len(patch_log)
        /\ failed_count = Cardinality(FailedCalls)
        /\ pc = "done" => Len(patch_log) = Len(matches)

\* C5 witness: a real run has completed with three matches, the first update
\* having failed and a later one succeeded
C5_FailureThenSuccessWitness ==
    /\ ~dry_run
    /\ pc = "done"
    /\ Len(matches) = 3
    /\ UpdateFailed(patch_log[1].outcome)
    /\ ~UpdateFailed(patch_log[3].outcome)
    /\ failed_count >= 1
    /\ success_count >= 1

\* C9: update_affinity_field never raises: every call returns a boolean,
\* TRUE exactly when the request ended in a success status, and the run is
\* never ended by an update call.
C9_UpdateNeverRaises ==
    /\ \A k \in 1..Len(patch_log) :
          /\ ~patch_log[k].result.raised
          /\ patch_log[k].result.value = ~UpdateFailed(patch_log[k].outcome)
    /\ patch_log # <<>> => pc # "crashed"

\* C9 witness: a call that timed out returned FALSE and the loop went on to
\* the next match
C9_TimeoutReturnsFalseWitness ==
    /\ Len(patch_log) >= 2
    /\ patch_log[1].outcome.kind = "Timeout"
    /\ patch_log[1].result = [raised |-> FALSE, value |-> FALSE]

\* ---- paginated reads -----------------------------------------------------

\* the items of the pages answered with a success status, in request order
RECURSIVE ItemsOfOkPages(_)
ItemsOfOkPages(log) ==
    IF log = <<>> THEN <<>>
    ELSE (IF Head(log).resp.status < 400 THEN Head(log).resp.items ELSE <<>>)
         \o ItemsOfOkPages(Tail(log))

ReportedTotal(resp) == IF resp.has_total THEN resp.total_pages ELSE 1

\* C3 (as claimed): after a non-success status on a page of any paginated
\* read the run goes on with the partial data: no error reaches the caller.
C3_ReadFailureNeverFatal == read_failed => pc # "crashed"

\* C3 (amended): a non-success status on a page of a Metrics Source
\* page-counter read ends that read, which returns the items of the earlier
\* pages; on a page of a CRM link-style read it raises out of the read:
\* the entries accumulated are not returned and the run ends there.
C3_ReadFailurePolicy ==
    read_failed =>
        IF page_log # <<>>
        THEN /\ pc = "companies_returned"
             /\ page_log[Len(page_log)].resp.status >= 400
             /\ companies = ItemsOfOkPages(SubSeq(page_log, 1, Len(page_log) - 1))
        ELSE /\ pc = "crashed"
             /\ affinity_entries = <<>>
             /\ matches = <<>>
             /\ patch_log = <<>>

\* C3 witness: the CRM read failed on a later page, after entries had been
\* accumulated, and the run has ended with the error
C3_LinkReadRaisedWitness ==
    /\ read_failed
    /\ pc = "crashed"
    /\ Len(all_entries) >= 1
    /\ list_requests >= 2

C8_PagesInOrder ==
    /\ \A k \in 1..Len(page_log) : page_log[k].page = k
    /\ \A k \in 1..(Len(page_log) - 1) :
          /\ page_log[k].resp.status < 400
          /\ k < ReportedTotal(page_log[k].resp)
    /\ pc \in {"fetch_companies", "companies_returned"} =>
          companies = ItemsOfOkPages(page_log)
    /\ pc = "companies_returned" =>
          LET last == page_log[Len(page_log)]
          IN  \/ last.resp.status >= 400
              \/ last.page >= ReportedTotal(last.resp)

\* C8: the page-counter read requests pages 1, 2, 3, ... and ends: at the
\* first page whose number has reached the total_pages it reports, with the
\* items of all pages concatenated in page order, or at the first page
\* answered with a non-success status, with the items of the pages before it.
C8_PageCounterTerminates ==
    /\ []C8_PagesInOrder
    /\ (pc = "fetch_companies") ~> (pc = "companies_returned")

\* C8 witness: two pages were fetched and the third failed; the result is
\* the items of the first two pages in order
C8_PartialAfterFailureWitness ==
    /\ pc = "companies_returned"
    /\ Len(page_log) = 3
    /\ page_log[1].resp.items = <<1, 2>>
    /\ page_log[2].resp.items = <<2>>
    /\ page_log[3].resp.status >= 400
    /\ page_log[3].resp.items # <<>>
    /\ companies = <<1, 2, 2>>

\* ---- fetch_visible_metric_data -------------------------------------------

NumericValues == {"1", "2"}
NumberOf(value) == IF value = "1" THEN 1 ELSE 2

\* the points of the company processed last with the maximum date among its
\* dated points whose value is neither null nor "None"
LatestUsable == {p \in usable_seen : \A q \in usable_seen : q.date <= p.date}

\* C10: for the company processed last, over all pages fetched for it: if no
\* dated point with a value other than null and "None" was fetched, the
\* company is left out of the map (the map is as before it); if there is
\* one, and the value at the maximum date is numeric, that value is recorded
\* under the company's domain and the other entries are as before. No
\* exception ends the loop, and every company is processed before it returns.
C10_LatestUsablePoint ==
    /\ mpc # "crashed"
    /\ mpc = "returned" => ci = n_companies + 1
    /\ (mpc \in {"company", "returned"} /\ last_outcome \in {"recorded", "no_data", "invalid"}) =>
          /\ usable_seen = {} =>
                /\ last_outcome = "no_data"
                /\ domain_to_value = map_before
          /\ (usable_seen # {} /\ \A p \in LatestUsable : p.value \in NumericValues) =>
                /\ last_outcome = "recorded"
                /\ cur_domain \in DOMAIN domain_to_value
                /\ \E p \in LatestUsable : domain_to_value[cur_domain] = NumberOf(p.value)
                /\ \A k \in DOMAIN map_before \ {cur_domain} :
                       k \in DOMAIN domain_to_value /\ domain_to_value[k] = map_before[k]

\* C10 witness: one company was left out for want of a usable point, and a
\* later one, with an older usable point, a newer one and null or "None"
\* points fetched over two pages, had the newer value recorded
C10_SkippedThenRecordedWitness ==
    /\ mpc = "returned"
    /\ n_no_data >= 1
    /\ last_outcome = "recorded"
    /\ dp_page = 2
    /\ unusable_seen
    /\ usable_seen = {[date |-> 1, value |-> "1"], [date |-> 2, value |-> "2"]}
    /\ domain_to_value[DomB] = 2


\* ------------------------------------------------------------------------
\* C11: the order of the steps of a run, and the run on an empty source map
\* ------------------------------------------------------------------------
\* step 1 is over: fetch_visible_metric_data has returned its map
SourceFetchCompleted == pc # "fetch_visible"

\* step 3 is over: the loop over the entries has seen every entry
ReconciliationFinished ==
    /\ pc \in {"dry_report", "update", "done", "crashed"}
    /\ affinity_entries = all_entries
    /\ ei = Len(affinity_entries) + 1

\* nothing of steps 2, 3 and 4 has happened
NothingAfterStep1 ==
    /\ list_requests = 0
    /\ all_entries = <<>>
    /\ affinity_entries = <<>>
    /\ ei = 1
    /\ matches = <<>>
    /\ unmatched_affinity = <<>>
    /\ report = <<>>
    /\ patch_log = <<>>
    /\ success_count = 0
    /\ failed_count = 0

C11_StateOrder ==
    /\ (SourceFetchCompleted /\ visible_data = EmptyMap) =>
            (pc = "no_data" /\ NothingAfterStep1)
    /\ ~SourceFetchCompleted => NothingAfterStep1
    /\ list_requests > 0 => (SourceFetchCompleted /\ visible_data # EmptyMap)
    /\ patch_log # <<>> => (~dry_run /\ ReconciliationFinished)

C11_StepOrder ==
    /\ pc = "no_data" => UNCHANGED vars
    /\ list_requests' # list_requests =>
            (pc = "fetch_affinity" /\ visible_data' = visible_data)
    /\ patch_log' # patch_log =>
            /\ pc = "update"
            /\ ReconciliationFinished
            /\ UNCHANGED <<matches, unmatched_visible, unmatched_affinity>>

\* C11: when the source map comes back empty the run ends at once, in a dry
\* run and in a real run alike: no list-entry request, no reconciliation (no
\* match, no unmatched CRM record), no report line and no update call, and no
\* further step. In every run a list-entry request is issued only once the
\* source map has been returned, and an update call is made only once the
\* loop over the entries has seen every entry.
C11_EmptyMapEndsRun == []C11_StateOrder /\ [][C11_StepOrder]_vars

\* a real run whose source map came back empty has ended
C11_EmptyMapRealRunWitness ==
    /\ SourceFetchCompleted
    /\ visible_data = EmptyMap
    /\ ~dry_run
    /\ pc = "no_data"
====
